---- MODULE Spec2Model ----
(***************************************************************************)
(* A model of the BoardGameGeek collection synchronisation of darkbot:     *)
(*   bot/utils/boardgames.py        fetch_bgg_collection, upsert_boardgame,*)
(*                                  process_bgg_users                      *)
(*   bot/scripts/backfill_bgg_private.py   _check_user_and_mark, main      *)
(*                                                                         *)
(* Durations are counted in tenths of a second, so that a delay such as    *)
(* 1.5 s is a number of the model.  Python's None is NoStatus for a status,*)
(* NoBody for a body and NoHeader for a header.  Strings that the code     *)
(* parses are sequences of one-character strings.                          *)
(***************************************************************************)
EXTENDS Integers, Sequences, FiniteSets, TLC

VARIABLES
    mode,       \* which program runs: "fetch" (fetch_bgg_collection alone),
                \* "sync" (process_bgg_users), "rerun" (process_bgg_users
                \* called again on the same responses), "backfill"
                \* (backfill_bgg_private.py), "pipeline" (process_bgg_users
                \* as one of the runs of the pipeline), "order"
                \* (process_bgg_users run again from the same tables with
                \* the SELECT returning the accounts in another order)
    fetch,     \* the running fetch_bgg_collection call: a fetch record
    db,         \* the psycopg2 connection and the tables behind it
    migrated,   \* whether the users table has the bggprivate column
    sync,       \* process_bgg_users: position, listed users, current document
    log,        \* what process_bgg_users did so far, in order
    bf,         \* backfill main(): position, dry_run, candidates, summary
    tasks,      \* backfill: one _check_user_and_mark task per candidate
    later       \* how many runs of the pipeline may follow the running one

vars == <<mode, fetch, db, migrated, sync, log, bf, tasks, later>>

(***************************************************************************)
(* Bounds of the model.                                                    *)
(***************************************************************************)
MaxAttemptsBound == 3
MaxUsers == 2
MaxItems == 2
MaxRuns == 2
RerunUsers == 3

(***************************************************************************)
(* Program constants.                                                      *)
(***************************************************************************)
DefaultMaxAttempts == 3
DefaultBackoff == 2
PollDelaySeconds == 5
BackfillMaxAttempts == 1

\* a number of seconds as a duration of the model (tenths of a second)
Seconds(n) == n * 10

NoStatus == 0
NoHeader == <<"None">>
NoBody == [kind |-> "none", items |-> <<>>]

RECURSIVE Pow(_, _)
Pow(b, n) == IF n = 0 THEN 1 ELSE b * Pow(b, n - 1)

(***************************************************************************)
(* str.isnumeric() and float() on the Retry-After header.  isnumeric() is  *)
(* true of a non-empty string of characters with a numeric value, which    *)
(* includes characters such as the superscript two that float() rejects;   *)
(* '.', '-' and letters are not numeric.                                   *)
(***************************************************************************)
Digits == {"0", "1", "2", "3", "4", "5", "6", "7", "8", "9"}
NumericChars == Digits \cup {"^2"}

DigitVal(c) ==
    CASE c = "0" -> 0 [] c = "1" -> 1 [] c = "2" -> 2 [] c = "3" -> 3
      [] c = "4" -> 4 [] c = "5" -> 5 [] c = "6" -> 6 [] c = "7" -> 7
      [] c = "8" -> 8 [] c = "9" -> 9

RECURSIVE DecimalValue(_)
DecimalValue(s) ==
    IF Len(s) = 0 THEN 0
    ELSE 10 * DecimalValue(SubSeq(s, 1, Len(s) - 1)) + DigitVal(s[Len(s)])

IsNumeric(s) == Len(s) > 0 /\ \A i \in 1..Len(s) : s[i] \in NumericChars

\* float(s) raises ValueError; only strings that passed isnumeric() reach it
FloatRaises(s) == \E i \in 1..Len(s) : s[i] \notin Digits

\* float(s) of a string of decimal digits, in tenths of a second
FloatOf(s) == Seconds(DecimalValue(s))

(***************************************************************************)
(* What one attempt (session.get and the reading of the response) ends in: *)
(*   resp    a response with its status, Retry-After header and body       *)
(*   cre     aiohttp.ClientResponseError carrying a status                 *)
(*   ce      another aiohttp.ClientError (transport level)                 *)
(*   exc     any other Exception                                           *)
(*   cancel  asyncio.CancelledError                                        *)
(* An attempt whose body cannot be read ends in the exception the read     *)
(* raises (ce or exc), whatever status came first.                         *)
(***************************************************************************)
Resp(s, ra, b) == [kind |-> "resp", status |-> s, ra |-> ra, body |-> b]
Raised(k, s) == [kind |-> k, status |-> s, ra |-> NoHeader, body |-> NoBody]

TextBody(t) == [kind |-> t, items |-> <<>>]

StatusPool == {200, 202, 400, 401, 403, 404, 429, 500, 503}
HeaderPool ==
    { NoHeader, <<>>, <<"0">>, <<"3">>, <<"1", "2">>, <<"1", ".", "5">>,
      <<"-", "1">>, <<"^2">>, <<"W", "e", "d">> }
FetchBodies == {TextBody("a"), TextBody("b")}

FetchOutcomes ==
    { Resp(s, NoHeader, NoBody) : s \in StatusPool \ {200, 429} }
      \cup { Resp(200, NoHeader, b) : b \in FetchBodies }
      \cup { Resp(429, h, NoBody) : h \in HeaderPool }
      \cup { Raised("cre", s) : s \in {401, 403, 500} }
      \cup { Raised("ce", NoStatus), Raised("exc", NoStatus),
             Raised("cancel", NoStatus) }

(***************************************************************************)
(* fetch_bgg_collection as a state machine.  A fetch record holds the      *)
(* arguments (max, base), the loop variable, the position (get: about to   *)
(* call session.get, sleep: inside asyncio.sleep, done), what the call     *)
(* returned or raised, and what happened so far (calls, waits, hist).      *)
(***************************************************************************)
Pending == [kind |-> "pending", body |-> NoBody, status |-> NoStatus]
Pair(b, s) == [kind |-> "pair", body |-> b, status |-> s]
BareNone == [kind |-> "none", body |-> NoBody, status |-> NoStatus]
Cancelled == [kind |-> "cancelled", body |-> NoBody, status |-> NoStatus]

Exhausted(f) ==
    [f EXCEPT !.pc = "done", !.result = Pair(NoBody, NoStatus)]

NewFetch(max, base) ==
    LET f == [max |-> max, base |-> base, attempt |-> 1, pc |-> "get",
              delay |-> 0, result |-> Pending, calls |-> 0,
              waits |-> <<>>, hist |-> <<>>]
    IN  IF max >= 1 THEN f ELSE Exhausted(f)

Return(f, r) == [f EXCEPT !.pc = "done", !.result = r]

Sleep_SkipLast(f, d) ==
    IF f.attempt = f.max THEN Exhausted(f)
    ELSE [f EXCEPT !.pc = "sleep", !.delay = d, !.waits = Append(@, d)]

Sleep(f, d) ==
    [f EXCEPT !.pc = "sleep", !.delay = d, !.waits = Append(@, d)]

Backoff_Capped(f) ==
    LET d == Seconds(Pow(f.base, f.attempt)) IN
    IF d > Seconds(PollDelaySeconds) THEN Seconds(PollDelaySeconds) ELSE d

Backoff(f) == Seconds(Pow(f.base, f.attempt))

On200_Retry(f, o) == Sleep(f, Backoff(f))

On200(f, o) == Return(f, Pair(o.body, 200))

On202_Backoff(f, o) == Sleep(f, Backoff(f))

On202(f, o) == Sleep(f, Seconds(PollDelaySeconds))

On429_IgnoreHeader(f, o) == Sleep(f, Backoff(f))

On429(f, o) ==
    IF o.ra # NoHeader /\ o.ra # <<>> /\ IsNumeric(o.ra)
    THEN IF FloatRaises(o.ra)
         THEN Sleep(f, Backoff(f))      \* ValueError: except Exception
         ELSE Sleep(f, FloatOf(o.ra))
    ELSE Sleep(f, Backoff(f))

OnAuth_Retry(f, o) == Sleep(f, Backoff(f))

OnAuth(f, o) == Return(f, Pair(NoBody, o.status))

On5xx(f, o) == Sleep(f, Backoff(f))

OnOtherStatus_Retry(f, o) == Sleep(f, Backoff(f))

OnOtherStatus(f, o) == Return(f, Pair(NoBody, o.status))

OnResponse(f, o) ==
    IF o.status = 200 THEN On200(f, o)
    ELSE IF o.status = 202 THEN On202(f, o)
    ELSE IF o.status = 429 THEN On429(f, o)
    ELSE IF o.status \in {401, 403} THEN OnAuth(f, o)
    ELSE IF 500 <= o.status /\ o.status < 600 THEN On5xx(f, o)
    ELSE OnOtherStatus(f, o)

OnClientResponseError(f, o) ==
    IF o.status \in {401, 403} THEN Return(f, BareNone)
    ELSE Sleep(f, Backoff(f))

OnClientError_GiveUp(f, o) == Exhausted(f)

OnClientError(f, o) == Sleep(f, Backoff(f))

OnException(f, o) == Sleep(f, Backoff(f))

OnCancelled(f, o) == Return(f, Cancelled)

\* one pass through the body of the for loop, up to its return or its sleep
Attempt(f, o) ==
    LET g == [f EXCEPT !.calls = @ + 1, !.hist = Append(@, o)]
    IN  CASE o.kind = "resp" -> OnResponse(g, o)
          [] o.kind = "cre" -> OnClientResponseError(g, o)
          [] o.kind = "ce" -> OnClientError(g, o)
          [] o.kind = "cancel" -> OnCancelled(g, o)
          [] OTHER -> OnException(g, o)

Wake_OneMore(f) ==
    IF f.attempt <= f.max
    THEN [f EXCEPT !.pc = "get", !.attempt = @ + 1, !.delay = 0]
    ELSE Exhausted([f EXCEPT !.delay = 0])

\* asyncio.sleep returns: the next iteration, or the end of the loop
Wake(f) ==
    IF f.attempt < f.max
    THEN [f EXCEPT !.pc = "get", !.attempt = @ + 1, !.delay = 0]
    ELSE Exhausted([f EXCEPT !.delay = 0])

\* asyncio.sleep raises CancelledError, which no handler of the loop keeps
CancelSleep(f) == Return([f EXCEPT !.delay = 0], Cancelled)

(***************************************************************************)
(* The psycopg2 connection (autocommit off) and the PostgreSQL tables.     *)
(* txn is the transaction status of the connection: idle, intrans (a       *)
(* statement has begun a transaction) or aborted (a statement failed; the  *)
(* server refuses every statement until the transaction ends).  users and  *)
(* games are the committed tables, wusers and wgames what the open         *)
(* transaction sees.  games is the table in row order.  clock counts the   *)
(* UPDATEs of users the server executed (it is CURRENT_TIMESTAMP), commits *)
(* the commits the connection sent.                                        *)
(***************************************************************************)
NullUser == "NULL"

NewDb(users, txn) ==
    [txn |-> txn, closed |-> FALSE, cursors |-> 0, clock |-> 0,
     commits |-> 0,
     users |-> users, games |-> <<>>, wusers |-> users, wgames |-> <<>>]

OpenCursor(d) == [d EXCEPT !.cursors = @ + 1]
CloseCursor(d) == [d EXCEPT !.cursors = @ - 1]

\* the first statement after commit or rollback begins a transaction
Begin(d) == IF d.txn = "idle" THEN [d EXCEPT !.txn = "intrans"] ELSE d

\* a statement failed on the server
Abort(d) ==
    [d EXCEPT !.txn = "aborted", !.wusers = d.users, !.wgames = d.games]

Commit(d) ==
    IF d.txn = "intrans"
    THEN [d EXCEPT !.txn = "idle", !.users = d.wusers, !.games = d.wgames,
                   !.commits = @ + 1]
    ELSE [d EXCEPT !.txn = "idle", !.wusers = d.users, !.wgames = d.games,
                   !.commits = @ + 1]

Rollback(d) ==
    [d EXCEPT !.txn = "idle", !.wusers = d.users, !.wgames = d.games]

\* the stored routine upsert_boardgame(...): insert, or update the row of
\* the same (userid, bggid)
SameKey(r, s) == r.userid = s.userid /\ r.bggid = s.bggid

SqlUpsert(table, row) ==
    IF \E i \in 1..Len(table) : SameKey(table[i], row)
    THEN [i \in 1..Len(table) |->
             IF SameKey(table[i], row) THEN row ELSE table[i]]
    ELSE Append(table, row)

\* the external item ids on which the routine raises (a constraint of the
\* table that the row violates)
RejectedIds == {8}

SqlRejects(row) == row.bggid \in RejectedIds

\* UPDATE users SET bggprivate = TRUE, datemodified = CURRENT_TIMESTAMP
\*   WHERE id = uid
SqlMarkPrivate_Toggle(d, uid) ==
    [d EXCEPT !.clock = @ + 1,
              !.wusers = [u \in DOMAIN @ |->
                  IF u = uid
                  THEN [@[u] EXCEPT !.bggprivate = IF @ = "TRUE" THEN "FALSE"
                                                   ELSE "TRUE",
                                    !.datemodified = d.clock + 1]
                  ELSE @[u]]]

SqlMarkPrivate(d, uid) ==
    [d EXCEPT !.clock = @ + 1,
              !.wusers = [u \in DOMAIN @ |->
                  IF u = uid
                  THEN [@[u] EXCEPT !.bggprivate = "TRUE",
                                    !.datemodified = d.clock + 1]
                  ELSE @[u]]]

(***************************************************************************)
(* upsert_boardgame(db, logger, game_data): ok is FALSE when it raises.    *)
(***************************************************************************)
UpsertBoardgame_NoCommit(d, row) ==
    LET c == OpenCursor(d) IN
    IF c.txn = "aborted"
    THEN [db |-> CloseCursor(c), ok |-> FALSE]
    ELSE IF SqlRejects(row)
    THEN [db |-> CloseCursor(Abort(Begin(c))), ok |-> FALSE]
    ELSE [db |-> CloseCursor([Begin(c) EXCEPT
                                 !.wgames = SqlUpsert(@, row)]),
          ok |-> TRUE]

UpsertBoardgame_LeakOnError(d, row) ==
    LET c == OpenCursor(d) IN
    IF c.txn = "aborted"
    THEN [db |-> c, ok |-> FALSE]
    ELSE IF SqlRejects(row)
    THEN [db |-> Abort(Begin(c)), ok |-> FALSE]
    ELSE [db |-> CloseCursor(Commit([Begin(c) EXCEPT
                                        !.wgames = SqlUpsert(@, row)])),
          ok |-> TRUE]

UpsertBoardgame(d, row) ==
    LET c == OpenCursor(d) IN
    IF c.txn = "aborted"
    THEN \* InFailedSqlTransaction; finally: cursor.close(); re-raised
         [db |-> CloseCursor(c), ok |-> FALSE]
    ELSE IF SqlRejects(row)
    THEN \* the routine raises; finally: cursor.close(); re-raised
         [db |-> CloseCursor(Abort(Begin(c))), ok |-> FALSE]
    ELSE [db |-> CloseCursor(Commit([Begin(c) EXCEPT
                                        !.wgames = SqlUpsert(@, row)])),
          ok |-> TRUE]

(***************************************************************************)
(* The document of a 200 response and its decoding (process_bgg_users,     *)
(* the for loop over root.findall("item")).  An attribute or a text is a   *)
(* string (sequence of characters) or NoAttr (None); an element is there   *)
(* or not.                                                                 *)
(***************************************************************************)
NoAttr == <<"None">>

FlagNames ==
    {"own", "prevowned", "fortrade", "want", "wanttoplay", "wanttobuy",
     "wishlist", "preordered"}

\* int(v): optional sign, then decimal digits
IsIntLiteral(v) ==
    LET body == IF Len(v) > 0 /\ v[1] \in {"-", "+"} THEN Tail(v) ELSE v
    IN  Len(body) > 0 /\ \A i \in 1..Len(body) : body[i] \in Digits

IntOf(v) ==
    IF v[1] = "-" THEN 0 - DecimalValue(Tail(v))
    ELSE IF v[1] = "+" THEN DecimalValue(Tail(v))
    ELSE DecimalValue(v)

\* float(v) also takes the names of the values that are no numbers
SpecialFloats == {<<"n", "a", "n">>, <<"i", "n", "f">>}

\* float(v) of digits, or digits '.' digit; float("nan") and float("inf")
\* are values too
IsFloatLiteral(v) ==
    \/ v \in SpecialFloats
    \/ IsIntLiteral(v)
    \/ /\ Len(v) >= 3
       /\ v[Len(v) - 1] = "."
       /\ v[Len(v)] \in Digits
       /\ IsIntLiteral(SubSeq(v, 1, Len(v) - 2))

\* a Python float: a finite value in tenths, or nan, or inf
Finite(tenths) == [class |-> "finite", tenths |-> tenths]
NotANumber == [class |-> "nan", tenths |-> 0]
Infinite == [class |-> "inf", tenths |-> 0]

FloatTenthsOf(v) ==
    IF v = <<"n", "a", "n">> THEN NotANumber
    ELSE IF v = <<"i", "n", "f">> THEN Infinite
    ELSE IF IsIntLiteral(v) THEN Finite(10 * IntOf(v))
    ELSE LET whole == SubSeq(v, 1, Len(v) - 2)
             frac == DigitVal(v[Len(v)])
         IN  IF whole[1] = "-" THEN Finite(10 * IntOf(whole) - frac)
             ELSE Finite(10 * IntOf(whole) + frac)

\* safe_convert(value, default, int) and safe_convert(value, default, float)
safe_convert_int(v, default) ==
    IF v # NoAttr /\ IsIntLiteral(v) THEN IntOf(v) ELSE default

safe_convert_float(v, default) ==
    IF v # NoAttr /\ IsFloatLiteral(v) THEN FloatTenthsOf(v) ELSE default

Item(objectid, hasName, name, hasStatus, own, hasStats, minplayers,
     hasRating, rating, hasNumplays, numplays) ==
    [objectid |-> objectid, hasName |-> hasName, name |-> name,
     hasStatus |-> hasStatus,
     flags |-> [n \in FlagNames |-> IF n = "own" THEN own ELSE NoAttr],
     hasStats |-> hasStats, minplayers |-> minplayers,
     maxplayers |-> <<"4">>, minplaytime |-> <<"6", "0">>,
     hasRating |-> hasRating, rating |-> rating,
     hasNumplays |-> hasNumplays, numplays |-> numplays]

\* the dict display raises AttributeError on a missing element
DecodeRaises(it) ==
    \/ ~(it.hasStats /\ it.hasRating)   \* find("stats/rating/average").get
    \/ ~it.hasStatus                    \* status.get
    \/ ~it.hasStats                     \* find("stats").get
    \/ ~it.hasNumplays                  \* find("numplays").text

GameData(uid, it) ==
    [userid |-> uid,
     name |-> IF it.hasName THEN it.name ELSE "Unknown",
     bggid |-> safe_convert_int(it.objectid, 0),
     avgrating |-> safe_convert_float(it.rating, Finite(0)),
     flags |-> [n \in FlagNames |-> it.flags[n] = <<"1">>],
     minplayers |-> safe_convert_int(it.minplayers, 0),
     maxplayers |-> safe_convert_int(it.maxplayers, 0),
     minplaytime |-> safe_convert_int(it.minplaytime, 0),
     numplays |-> safe_convert_int(it.numplays, 0)]

ItemPool ==
    { Item(<<"7">>, TRUE, "Catan", TRUE, <<"1">>, TRUE, <<"3">>,
           TRUE, <<"7", ".", "5">>, TRUE, <<"2">>),
      Item(<<"8">>, TRUE, "Azul", TRUE, <<"0">>, TRUE, <<"2">>,
           TRUE, <<"8">>, TRUE, <<"0">>),
      Item(<<"x">>, FALSE, "", TRUE, NoAttr, TRUE, <<>>,
           TRUE, <<"n", "/", "a">>, TRUE, NoAttr),
      Item(<<"9">>, TRUE, "Root", FALSE, NoAttr, TRUE, <<"2">>,
           TRUE, <<"8">>, TRUE, <<"1">>),
      Item(<<"6">>, TRUE, "Nemo", TRUE, <<"1">>, TRUE, <<"1">>,
           TRUE, <<"n", "a", "n">>, TRUE, <<"4">>) }

RECURSIVE SeqsUpTo(_, _)
SeqsUpTo(S, n) ==
    IF n = 0 THEN {<<>>}
    ELSE LET shorter == SeqsUpTo(S, n - 1)
         IN  shorter \cup {Append(s, x) : s \in shorter, x \in S}

XmlBody(items) == [kind |-> "xml", items |-> items]
MalformedBody == [kind |-> "malformed", items |-> <<>>]
EmptyBody == [kind |-> "empty", items |-> <<>>]

SyncBodies ==
    {XmlBody(s) : s \in SeqsUpTo(ItemPool, MaxItems)}
        \cup {MalformedBody, EmptyBody}

RerunOutcomes ==
    { Resp(200, NoHeader, XmlBody(<<it>>)) :
          it \in {i \in ItemPool : ~DecodeRaises(i) /\ i.hasName} }
      \cup { Resp(s, NoHeader, NoBody) : s \in {202, 401} }

SyncOutcomes ==
    { Resp(200, NoHeader, b) : b \in SyncBodies }
      \cup { Resp(s, NoHeader, NoBody) : s \in {202, 401, 403, 404} }
      \cup { Raised("cre", 401), Raised("cancel", NoStatus) }

(***************************************************************************)
(* process_bgg_users(db, logger).  Between two awaits of the fetch nothing *)
(* else runs, so the handling of a fetch result up to the item loop, and   *)
(* one pass of the item loop, are one step each.  log is the history the   *)
(* properties read: one event per fetch started, fetch result, marking,    *)
(* parse, upsert call and account-level exception.                         *)
(***************************************************************************)
IdleFetch ==
    [max |-> 0, base |-> 0, attempt |-> 0, pc |-> "idle", delay |-> 0,
     result |-> Pending, calls |-> 0, waits |-> <<>>, hist |-> <<>>]

\* backfill main() not running
IdleBf ==
    [pc |-> "idle", dry |-> FALSE, cands |-> <<>>, users0 |-> <<>>,
     total |-> 0, marked |-> 0]

\* how a call of process_bgg_users ends: it has no return statement, so it
\* returns None, or an exception leaves it
Ended(kind) ==
    [kind |-> kind, candidates |-> 0, restricted |-> 0, written |-> 0,
     failures |-> 0]
Running == Ended("running")
ReturnedNone == Ended("None")
RaisedOut == Ended("raised")

\* run counts the calls of process_bgg_users; script keeps, per user, what
\* the attempts of the first call ended in, and first the games table the
\* first call left and firstusers the users table it left (only when the call
\* is to be repeated); ret is how the call ended
IdleSync ==
    [pc |-> "idle", list |-> <<>>, idx |-> 0, items |-> <<>>, k |-> 0,
     run |-> 1, script |-> <<>>, first |-> <<>>, firstusers |-> <<>>,
     ret |-> Running]

SyncModes == {"sync", "rerun", "pipeline", "order"}

Event(op, uid, k, id, ok) ==
    [op |-> op, uid |-> uid, k |-> k, id |-> id, ok |-> ok]

Orders(S) ==
    {s \in [1..Cardinality(S) -> S] :
        \A i, j \in 1..Cardinality(S) : s[i] = s[j] => i = j}

ListedUsers_Unflagged(users) ==
    {u \in DOMAIN users :
        users[u].bgguser # NullUser /\ users[u].bggprivate # "TRUE"}

\* SELECT id, bgguser FROM users WHERE bgguser IS NOT NULL
ListedUsers(users) == {u \in DOMAIN users : users[u].bgguser # NullUser}

\* the block under "if status in (401, 403)": the defensive rollback, whose
\* exception (raises) is logged and ignored, then cursor, UPDATE and commit.
\* ok is FALSE when the UPDATE raised (caught and logged as "Could not mark
\* user"): the column is missing, or the transaction is still aborted
MarkPrivate_NoRollback(d, uid, raises) ==
    LET c == OpenCursor(d) IN
    IF ~migrated \/ c.txn = "aborted"
    THEN [db |-> CloseCursor(Abort(Begin(c))), ok |-> FALSE]
    ELSE [db |-> CloseCursor(Commit(SqlMarkPrivate(Begin(c), uid))),
          ok |-> TRUE]

MarkPrivate(d, uid, raises) ==
    LET c == OpenCursor(IF raises THEN d ELSE Rollback(d)) IN
    IF ~migrated \/ c.txn = "aborted"
    THEN \* the UPDATE raises; finally: cur.close()
         [db |-> CloseCursor(Abort(Begin(c))), ok |-> FALSE]
    ELSE [db |-> CloseCursor(Commit(SqlMarkPrivate(Begin(c), uid))),
          ok |-> TRUE]

\* db.rollback() may raise; the runs that repeat or alternate leave that out
RollbackRaises == IF mode = "sync" THEN BOOLEAN ELSE {FALSE}

\* k of a mark event: 1 when the defensive rollback raised
Raises(b) == IF b THEN 1 ELSE 0

CurrentUid == sync.list[sync.idx]

NextAccount(s) ==
    [s EXCEPT !.pc = "next", !.idx = @ + 1, !.items = <<>>, !.k = 0]

\* the responses a call can meet: those of the first call again when the
\* call is a repetition
AttemptPool ==
    IF sync.run > 1 THEN {sync.script[CurrentUid][fetch.attempt]}
    ELSE IF mode \in {"rerun", "pipeline", "order"} THEN RerunOutcomes
    ELSE SyncOutcomes

SyncList ==
    /\ mode \in SyncModes
    /\ sync.pc = "list"
    /\ IF db.txn = "aborted"
       THEN \* execute raises; finally: cursor.close(); outer except logs
            /\ db' = CloseCursor(OpenCursor(db))
            /\ sync' = [sync EXCEPT !.pc = "failed", !.ret = ReturnedNone]
            /\ log' = Append(log, Event("listfail", 0, 0, 0, FALSE))
       ELSE \E order \in Orders(ListedUsers(db.wusers)) :
            /\ db' = CloseCursor(Begin(OpenCursor(db)))
            /\ sync' = [sync EXCEPT !.pc = "next", !.list = order, !.idx = 1]
            /\ log' = log
    /\ UNCHANGED <<later, mode, fetch, migrated, bf, tasks>>

SyncStartFetch ==
    /\ mode \in SyncModes
    /\ sync.pc = "next"
    /\ IF sync.idx > Len(sync.list)
       THEN /\ sync' = [sync EXCEPT !.pc = "done", !.ret = ReturnedNone]
            /\ UNCHANGED <<fetch, log>>
       ELSE /\ fetch' = NewFetch(DefaultMaxAttempts, DefaultBackoff)
            /\ sync' = [sync EXCEPT !.pc = "fetching"]
            /\ log' = Append(log, Event("fetch", CurrentUid, 0, 0, TRUE))
    /\ UNCHANGED <<later, mode, db, migrated, bf, tasks>>

SyncAttempt ==
    /\ mode \in SyncModes
    /\ sync.pc = "fetching"
    /\ fetch.pc = "get"
    /\ \E o \in AttemptPool : fetch' = Attempt(fetch, o)
    /\ UNCHANGED <<later, mode, db, migrated, sync, log, bf, tasks>>

SyncWake ==
    /\ mode \in SyncModes
    /\ sync.pc = "fetching"
    /\ fetch.pc = "sleep"
    /\ fetch' = Wake(fetch)
    /\ UNCHANGED <<later, mode, db, migrated, sync, log, bf, tasks>>

SyncCancelSleep ==
    /\ mode \in SyncModes
    /\ sync.pc = "fetching"
    /\ fetch.pc = "sleep"
    /\ fetch' = CancelSleep(fetch)
    /\ UNCHANGED <<later, mode, db, migrated, sync, log, bf, tasks>>

\* which branch the result of the fetch takes
HandleKind_NoAuthBranch(r) ==
    CASE r.kind = "cancelled" -> "cancelled"
      [] r.kind = "none" -> "typeerror"
      [] r.kind = "pair" /\ r.body.kind \in {"none", "empty"} -> "nodata"
      [] r.kind = "pair" /\ r.body.kind = "malformed" -> "parseerror"
      [] OTHER -> "items"

HandleKind_CancelCaught(r) ==
    CASE r.kind \in {"cancelled", "none"} -> "typeerror"
      [] r.kind = "pair" /\ r.status \in {401, 403} -> "auth"
      [] r.kind = "pair" /\ r.status \notin {401, 403}
            /\ r.body.kind \in {"none", "empty"} -> "nodata"
      [] r.kind = "pair" /\ r.status \notin {401, 403}
            /\ r.body.kind = "malformed" -> "parseerror"
      [] OTHER -> "items"

HandleKind_NoDataMarks(r) ==
    CASE r.kind = "cancelled" -> "cancelled"
      [] r.kind = "none" -> "typeerror"
      [] r.kind = "pair" /\ r.body.kind \in {"none", "empty"} -> "auth"
      [] r.kind = "pair" /\ r.status \in {401, 403} -> "auth"
      [] r.kind = "pair" /\ r.status \notin {401, 403}
            /\ r.body.kind = "malformed" -> "parseerror"
      [] OTHER -> "items"

HandleKind_ParseErrorEndsRun(r) ==
    CASE r.kind = "cancelled" -> "cancelled"
      [] r.kind = "none" -> "typeerror"
      [] r.kind = "pair" /\ r.status \in {401, 403} -> "auth"
      [] r.kind = "pair" /\ r.status \notin {401, 403}
            /\ r.body.kind \in {"none", "empty"} -> "nodata"
      [] r.kind = "pair" /\ r.status \notin {401, 403}
            /\ r.body.kind = "malformed" -> "cancelled"
      [] OTHER -> "items"

HandleKind(r) ==
    CASE r.kind = "cancelled" -> "cancelled"   \* CancelledError: no handler
      [] r.kind = "none" -> "typeerror"        \* unpacking None
      [] r.kind = "pair" /\ r.status \in {401, 403} -> "auth"
      [] r.kind = "pair" /\ r.status \notin {401, 403}
            /\ r.body.kind \in {"none", "empty"} -> "nodata"
      [] r.kind = "pair" /\ r.status \notin {401, 403}
            /\ r.body.kind = "malformed" -> "parseerror"
      [] OTHER -> "items"

\* from the return of the fetch to the first pass of the item loop
\* the first of two calls keeps what the attempts for the user ended in
Scripted(s) ==
    IF mode \in {"rerun", "order"} /\ s.run = 1
    THEN [s EXCEPT !.script =
             [u \in DOMAIN @ \cup {CurrentUid} |->
                 IF u = CurrentUid THEN fetch.hist ELSE @[u]]]
    ELSE s

SyncHandle ==
    /\ mode \in SyncModes
    /\ sync.pc = "fetching"
    /\ fetch.pc = "done"
    /\ LET r == fetch.result
           uid == CurrentUid
           kind == HandleKind(r)
           got == Event("fetched", uid, 0, r.status, r.kind = "pair")
       IN
       CASE kind = "cancelled" ->
              \* CancelledError is no Exception: it leaves every handler
              /\ sync' = [sync EXCEPT !.pc = "cancelled", !.ret = RaisedOut]
              /\ log' = Append(log, Event("cancelled", uid, 0, 0, FALSE))
              /\ db' = db
         [] kind = "typeerror" ->
              \* TypeError: the per-user handler logs, next user
              /\ sync' = NextAccount(Scripted(sync))
              /\ log' = log \o <<got, Event("error", uid, 0, 0, FALSE)>>
              /\ db' = db
         [] kind = "auth" ->
              \E raises \in RollbackRaises :
                  LET m == MarkPrivate(db, uid, raises) IN
                  /\ sync' = NextAccount(Scripted(sync))
                  /\ log' = log \o <<got, Event("mark", uid, Raises(raises),
                                                0, m.ok)>>
                  /\ db' = m.db
         [] kind = "nodata" ->
              /\ sync' = NextAccount(Scripted(sync))
              /\ log' = log \o <<got, Event("skip", uid, 0, 0, TRUE)>>
              /\ db' = db
         [] kind = "parseerror" ->
              /\ sync' = NextAccount(Scripted(sync))
              /\ log' = log \o <<got, Event("parse", uid, 0, 0, FALSE)>>
              /\ db' = db
         [] OTHER ->
              /\ sync' = [Scripted(sync) EXCEPT !.pc = "items", !.items = r.body.items,
                                      !.k = 1]
              /\ log' = log \o <<got, Event("parse", uid, 0, 0, TRUE)>>
              /\ db' = db
    /\ fetch' = IdleFetch
    /\ UNCHANGED <<later, mode, migrated, bf, tasks>>

\* process_bgg_users has returned and is called again
SyncRestart ==
    /\ mode = "rerun"
    /\ sync.pc = "done"
    /\ sync.run < MaxRuns
    /\ sync' = [sync EXCEPT !.pc = "list", !.list = <<>>, !.idx = 0,
                            !.run = @ + 1, !.ret = Running,
                            !.first = IF sync.run = 1 THEN db.games ELSE @]
    /\ UNCHANGED <<later, mode, fetch, db, migrated, log, bf, tasks>>

SyncItem_Reversed ==
    /\ mode \in SyncModes
    /\ sync.pc = "items"
    /\ IF sync.k > Len(sync.items)
       THEN /\ sync' = NextAccount(sync)
            /\ UNCHANGED <<db, log>>
       ELSE LET it == sync.items[Len(sync.items) + 1 - sync.k]
                uid == CurrentUid
            IN  IF DecodeRaises(it)
                THEN /\ sync' = NextAccount(sync)
                     /\ log' = Append(log, Event("error", uid, sync.k, 0, FALSE))
                     /\ db' = db
                ELSE LET row == GameData(uid, it)
                         w == UpsertBoardgame(db, row)
                     IN  /\ db' = w.db
                         /\ log' = Append(log, Event("upsert", uid, sync.k,
                                                     row.bggid, w.ok))
                         /\ sync' = [sync EXCEPT !.k = @ + 1]
    /\ UNCHANGED <<later, mode, fetch, migrated, bf, tasks>>

\* one pass of "for item in root.findall('item')", or the end of the loop
SyncItem ==
    /\ mode \in SyncModes
    /\ sync.pc = "items"
    /\ IF sync.k > Len(sync.items)
       THEN /\ sync' = NextAccount(sync)
            /\ UNCHANGED <<db, log>>
       ELSE LET it == sync.items[sync.k]
                uid == CurrentUid
            IN  IF DecodeRaises(it)
                THEN \* AttributeError: the per-user handler, next user
                     /\ sync' = NextAccount(sync)
                     /\ log' = Append(log, Event("error", uid, sync.k, 0, FALSE))
                     /\ db' = db
                ELSE LET row == GameData(uid, it)
                         w == UpsertBoardgame(db, row)
                     IN  /\ db' = w.db
                         /\ log' = Append(log, Event("upsert", uid, sync.k,
                                                     row.bggid, w.ok))
                         /\ sync' = [sync EXCEPT !.k = @ + 1]
    /\ UNCHANGED <<later, mode, fetch, migrated, bf, tasks>>

UserRows ==
    { [bgguser |-> n, bggprivate |-> p, datemodified |-> 0] :
        n \in {NullUser, "", "alice"}, p \in {"FALSE", "TRUE"} }
        \ { [bgguser |-> n, bggprivate |-> "TRUE", datemodified |-> 0] :
              n \in {NullUser, ""} }

SyncInit ==
    /\ mode = "sync"
    /\ fetch = IdleFetch
    /\ \E users \in [1..MaxUsers -> UserRows], txn \in {"idle", "aborted"} :
           db = NewDb(users, txn)
    /\ migrated \in BOOLEAN
    /\ sync = [IdleSync EXCEPT !.pc = "list"]
    /\ log = <<>>
    /\ bf = IdleBf
    /\ tasks = <<>>
    /\ later = 0

SyncNext ==
    \/ SyncList
    \/ SyncStartFetch
    \/ SyncAttempt
    \/ SyncWake
    \/ SyncCancelSleep
    \/ SyncHandle
    \/ SyncItem

Spec == SyncInit /\ [][SyncNext]_vars

(***************************************************************************)
(* process_bgg_users called MaxRuns times on the same responses.           *)
(***************************************************************************)
RerunInit ==
    /\ mode = "rerun"
    /\ fetch = IdleFetch
    /\ db = NewDb([u \in 1..RerunUsers |->
                     [bgguser |-> "alice", bggprivate |-> "FALSE",
                      datemodified |-> 0]], "idle")
    /\ migrated = TRUE
    /\ sync = [IdleSync EXCEPT !.pc = "list"]
    /\ log = <<>>
    /\ bf = IdleBf
    /\ tasks = <<>>
    /\ later = 0

RerunNext == SyncNext \/ SyncRestart

SpecRerun == RerunInit /\ [][RerunNext]_vars

(***************************************************************************)
(* The same accounts in two orders: process_bgg_users runs on the tables   *)
(* OrderStart, and then again on the same tables, with the responses of    *)
(* the first run for each account and the rows listed in any order.        *)
(***************************************************************************)
OrderStart ==
    NewDb([u \in 1..MaxUsers |->
              [bgguser |-> "alice", bggprivate |-> "FALSE",
               datemodified |-> 0]], "idle")

SyncReorder ==
    /\ mode = "order"
    /\ sync.pc = "done"
    /\ sync.run < MaxRuns
    /\ sync' = [sync EXCEPT !.pc = "list", !.list = <<>>, !.idx = 0,
                            !.run = @ + 1, !.ret = Running,
                            !.first = IF sync.run = 1 THEN db.games ELSE @,
                            !.firstusers = IF sync.run = 1 THEN db.users
                                           ELSE @]
    /\ db' = OrderStart
    /\ UNCHANGED <<later, mode, fetch, migrated, log, bf, tasks>>

OrderInit ==
    /\ mode = "order"
    /\ fetch = IdleFetch
    /\ db = OrderStart
    /\ migrated = TRUE
    /\ sync = [IdleSync EXCEPT !.pc = "list"]
    /\ log = <<>>
    /\ bf = IdleBf
    /\ tasks = <<>>
    /\ later = 0

OrderNext == SyncNext \/ SyncReorder

SpecOrder == OrderInit /\ [][OrderNext]_vars

(***************************************************************************)
(* backfill_bgg_private.py.  main() lists the candidates and gathers one   *)
(* _check_user_and_mark task per candidate; the tasks interleave at the    *)
(* awaits of their fetch (max_attempts=1), and what a task does after its  *)
(* fetch returned is one step.  fault is what the database does to the     *)
(* marking of a task: nothing, or cursor(), the defensive rollback, the    *)
(* UPDATE or the commit raises.                                            *)
(***************************************************************************)
Faults == {"none", "cursor", "rollback", "update", "commit"}

BackfillOutcomes ==
    { Resp(s, NoHeader, NoBody) : s \in {202, 401, 403, 404, 500} }
      \cup { Resp(200, NoHeader, TextBody("a")), Resp(429, <<"3">>, NoBody),
             Raised("cre", 401), Raised("ce", NoStatus) }

\* SELECT id, bgguser FROM users WHERE bgguser IS NOT NULL
\*   AND coalesce(bggprivate, FALSE) = FALSE
Candidates_AnyFlag(users) ==
    {u \in DOMAIN users : users[u].bgguser # NullUser}

Candidates(users) ==
    {u \in DOMAIN users :
        users[u].bgguser # NullUser /\ users[u].bggprivate # "TRUE"}

NewTask_DefaultAttempts(uid) ==
    [uid |-> uid, pc |-> "fetch",
     fetch |-> NewFetch(DefaultMaxAttempts, DefaultBackoff),
     status |-> NoStatus, marked |-> FALSE, fault |-> "none"]

NewTask(uid) ==
    [uid |-> uid, pc |-> "fetch",
     fetch |-> NewFetch(BackfillMaxAttempts, DefaultBackoff),
     status |-> NoStatus, marked |-> FALSE, fault |-> "none"]

Outcome(d, kind, status, marked, events) ==
    [db |-> d, kind |-> kind, status |-> status, marked |-> marked,
     events |-> events]

\* _check_user_and_mark from the return of the fetch on: kind is "returned"
\* (the tuple (user_id, bgguser, status, marked)), "raised" or "cancelled"
CheckUserAndMark_IgnoreDryRun(d, uid, r, dry, fault) ==
    IF r.kind = "pair" /\ r.status \in {401, 403} /\ ~d.closed
    THEN Outcome(CloseCursor(Commit(SqlMarkPrivate(
                     Begin(OpenCursor(Rollback(d))), uid))),
                 "returned", r.status, TRUE,
                 <<Event("update", uid, 0, r.status, TRUE)>>)
    ELSE Outcome(d, "returned", r.status, FALSE, <<>>)

CheckUserAndMark_NoCommit(d, uid, r, dry, fault) ==
    IF r.kind = "pair" /\ r.status \in {401, 403} /\ ~dry /\ ~d.closed
    THEN Outcome(CloseCursor(SqlMarkPrivate(Begin(Rollback(OpenCursor(d))),
                                            uid)),
                 "returned", r.status, TRUE,
                 <<Event("update", uid, 0, r.status, TRUE)>>)
    ELSE Outcome(d, "returned", r.status, FALSE, <<>>)

CheckUserAndMark_OnClosed(d, uid, r, dry, fault) ==
    IF r.kind = "cancelled"
    THEN Outcome(d, "cancelled", NoStatus, FALSE, <<>>)
    ELSE IF r.kind = "none"
    THEN Outcome(d, "returned", NoStatus, FALSE, <<>>)
    ELSE IF r.status \notin {401, 403}
    THEN Outcome(d, "returned", r.status, FALSE, <<>>)
    ELSE IF dry
    THEN Outcome(d, "returned", r.status, FALSE, <<>>)
    ELSE IF fault = "cursor"
    THEN Outcome(d, "raised", r.status, FALSE, <<>>)
    ELSE LET o == OpenCursor(d)
             c == Begin(IF fault = "rollback" THEN o ELSE Rollback(o))
         IN
         IF fault = "update"
         THEN Outcome(CloseCursor(Rollback(Abort(c))), "returned", r.status,
                      FALSE, <<Event("update", uid, 0, r.status, FALSE)>>)
         ELSE IF fault = "commit"
         THEN Outcome(CloseCursor(Rollback(SqlMarkPrivate(c, uid))),
                      "returned", r.status, FALSE,
                      <<Event("update", uid, 0, r.status, TRUE)>>)
         ELSE Outcome(CloseCursor(Commit(SqlMarkPrivate(c, uid))),
                      "returned", r.status, TRUE,
                      <<Event("update", uid, 0, r.status, TRUE)>>)

CheckUserAndMark(d, uid, r, dry, fault) ==
    IF r.kind = "cancelled"
    THEN Outcome(d, "cancelled", NoStatus, FALSE, <<>>)
    ELSE IF r.kind = "none"      \* TypeError, caught: status stays None
    THEN Outcome(d, "returned", NoStatus, FALSE, <<>>)
    ELSE IF r.status \notin {401, 403}
    THEN Outcome(d, "returned", r.status, FALSE, <<>>)
    ELSE IF dry
    THEN Outcome(d, "returned", r.status, FALSE, <<>>)
    ELSE IF d.closed \/ fault = "cursor"
    THEN \* db_conn.cursor() is outside the try: the task raises
         Outcome(d, "raised", r.status, FALSE, <<>>)
    ELSE LET o == OpenCursor(d)
             \* the defensive rollback; its exception is ignored
             c == Begin(IF fault = "rollback" THEN o ELSE Rollback(o))
         IN
         IF fault = "update"
         THEN Outcome(CloseCursor(Rollback(Abort(c))), "returned", r.status,
                      FALSE, <<Event("update", uid, 0, r.status, FALSE)>>)
         ELSE IF fault = "commit"
         THEN Outcome(CloseCursor(Rollback(SqlMarkPrivate(c, uid))),
                      "returned", r.status, FALSE,
                      <<Event("update", uid, 0, r.status, TRUE)>>)
         ELSE Outcome(CloseCursor(Commit(SqlMarkPrivate(c, uid))),
                      "returned", r.status, TRUE,
                      <<Event("update", uid, 0, r.status, TRUE)>>)

\* main() up to the gather
BfList ==
    /\ mode = "backfill"
    /\ bf.pc = "list"
    /\ IF ~migrated
       THEN \* the SELECT raises; finally: cur.close(), db_conn.close()
            /\ db' = [Abort(Begin(db)) EXCEPT !.closed = TRUE]
            /\ bf' = [bf EXCEPT !.pc = "raised"]
            /\ tasks' = tasks
       ELSE \E order \in Orders(Candidates(db.users)) :
            /\ db' = Begin(OpenCursor(db))
            /\ bf' = [bf EXCEPT !.pc = "gather", !.cands = order]
            /\ tasks' = [i \in 1..Len(order) |-> NewTask(order[i])]
    /\ UNCHANGED <<later, mode, fetch, migrated, sync, log>>

BfAttempt(i) ==
    /\ mode = "backfill"
    /\ tasks[i].pc = "fetch"
    /\ tasks[i].fetch.pc = "get"
    /\ \E o \in BackfillOutcomes :
           tasks' = [tasks EXCEPT ![i].fetch = Attempt(@, o)]
    /\ UNCHANGED <<later, mode, fetch, db, migrated, sync, log, bf>>

BfWake(i) ==
    /\ mode = "backfill"
    /\ tasks[i].pc = "fetch"
    /\ tasks[i].fetch.pc = "sleep"
    /\ tasks' = [tasks EXCEPT ![i].fetch = Wake(@)]
    /\ UNCHANGED <<later, mode, fetch, db, migrated, sync, log, bf>>

\* the task goes on after its fetch has returned
BfCheck(i) ==
    /\ mode = "backfill"
    /\ tasks[i].pc = "fetch"
    /\ tasks[i].fetch.pc = "done"
    /\ \E fault \in Faults :
           LET o == CheckUserAndMark(db, tasks[i].uid, tasks[i].fetch.result,
                                     bf.dry, fault)
           IN  /\ db' = o.db
               /\ log' = log \o o.events
               /\ tasks' = [tasks EXCEPT ![i].pc = o.kind,
                                         ![i].status = o.status,
                                         ![i].marked = o.marked,
                                         ![i].fault = fault]
    /\ UNCHANGED <<later, mode, fetch, migrated, sync, bf>>

\* the event loop is torn down after main() raised: a task still inside its
\* fetch is cancelled
BfTeardown(i) ==
    /\ mode = "backfill"
    /\ bf.pc = "raised"
    /\ tasks[i].pc = "fetch"
    /\ tasks[i].fetch.pc \in {"get", "sleep"}
    /\ tasks' = [tasks EXCEPT ![i].pc = "cancelled",
                              ![i].fetch = CancelSleep(@)]
    /\ UNCHANGED <<later, mode, fetch, db, migrated, sync, log, bf>>

BfGatherDone_CountAuth ==
    /\ mode = "backfill"
    /\ bf.pc = "gather"
    /\ \A i \in DOMAIN tasks : tasks[i].pc = "returned"
    /\ bf' = [bf EXCEPT !.pc = "done", !.total = Len(bf.cands),
                        !.marked = Cardinality({i \in DOMAIN tasks :
                                        tasks[i].status \in {401, 403}})]
    /\ db' = [CloseCursor(db) EXCEPT !.closed = TRUE]
    /\ UNCHANGED <<later, mode, fetch, migrated, sync, log, tasks>>

\* gather returns the results: the summary, then finally: close
BfGatherDone ==
    /\ mode = "backfill"
    /\ bf.pc = "gather"
    /\ \A i \in DOMAIN tasks : tasks[i].pc = "returned"
    /\ bf' = [bf EXCEPT !.pc = "done", !.total = Len(bf.cands),
                        !.marked = Cardinality({i \in DOMAIN tasks :
                                                    tasks[i].marked})]
    /\ db' = [CloseCursor(db) EXCEPT !.closed = TRUE]
    /\ UNCHANGED <<later, mode, fetch, migrated, sync, log, tasks>>

\* gather raises what a task raised: finally: close, and main() raises
BfGatherRaise ==
    /\ mode = "backfill"
    /\ bf.pc = "gather"
    /\ \E i \in DOMAIN tasks : tasks[i].pc \in {"raised", "cancelled"}
    /\ bf' = [bf EXCEPT !.pc = "raised"]
    /\ db' = [CloseCursor(db) EXCEPT !.closed = TRUE]
    /\ UNCHANGED <<later, mode, fetch, migrated, sync, log, tasks>>

\* the rows the script can meet: bggprivate may also be NULL
BackfillRows ==
    UserRows \cup {[bgguser |-> "alice", bggprivate |-> "NULL",
                    datemodified |-> 0]}

BackfillInit ==
    /\ mode = "backfill"
    /\ fetch = IdleFetch
    /\ \E users \in [1..MaxUsers -> BackfillRows] :
           /\ db = NewDb(users, "idle")
           /\ \E dry \in BOOLEAN :
                  bf = [IdleBf EXCEPT !.pc = "list", !.dry = dry,
                                      !.users0 = users]
    /\ migrated \in BOOLEAN
    /\ sync = IdleSync
    /\ log = <<>>
    /\ tasks = <<>>
    /\ later = 0

BackfillNext ==
    \/ BfList
    \/ \E i \in DOMAIN tasks : BfAttempt(i)
    \/ \E i \in DOMAIN tasks : BfWake(i)
    \/ \E i \in DOMAIN tasks : BfCheck(i)
    \/ \E i \in DOMAIN tasks : BfTeardown(i)
    \/ BfGatherDone
    \/ BfGatherRaise

SpecBackfill == BackfillInit /\ [][BackfillNext]_vars

(***************************************************************************)
(* The pipeline: runs of process_bgg_users and of the backfill script, one *)
(* after the other on the same tables.  A run of the script opens its own  *)
(* connection; a run of process_bgg_users finds the connection of the bot  *)
(* idle or with the aborted transaction an earlier call left.              *)
(***************************************************************************)
RunOver ==
    \/ mode = "pipeline" /\ sync.pc \in {"done", "failed", "cancelled"}
    \/ /\ mode = "backfill"
       /\ bf.pc \in {"done", "raised"}
       /\ \A i \in DOMAIN tasks : tasks[i].pc # "fetch"

Reconnected(d, txn) ==
    [NewDb(d.users, txn) EXCEPT !.games = d.games, !.wgames = d.games,
                                !.clock = d.clock]

PipelineSwitch ==
    /\ later > 0
    /\ RunOver
    /\ later' = later - 1
    /\ \/ /\ mode' = "pipeline"
          /\ \E txn \in {"idle", "aborted"} : db' = Reconnected(db, txn)
          /\ sync' = [IdleSync EXCEPT !.pc = "list"]
          /\ bf' = IdleBf
       \/ /\ mode' = "backfill"
          /\ db' = Reconnected(db, "idle")
          /\ sync' = IdleSync
          /\ \E dry \in BOOLEAN :
                 bf' = [IdleBf EXCEPT !.pc = "list", !.dry = dry,
                                      !.users0 = db.users]
    /\ fetch' = IdleFetch
    /\ log' = <<>>
    /\ tasks' = <<>>
    /\ UNCHANGED migrated

PipelineInit ==
    /\ mode \in {"pipeline", "backfill"}
    /\ fetch = IdleFetch
    /\ db = NewDb([u \in 1..MaxUsers |->
                     [bgguser |-> "alice", bggprivate |-> "FALSE",
                      datemodified |-> 0]], "idle")
    /\ migrated = TRUE
    /\ sync = IF mode = "pipeline" THEN [IdleSync EXCEPT !.pc = "list"]
              ELSE IdleSync
    /\ bf = IF mode = "backfill"
            THEN [IdleBf EXCEPT !.pc = "list", !.users0 = db.users]
            ELSE IdleBf
    /\ log = <<>>
    /\ tasks = <<>>
    /\ later = MaxRuns - 1

PipelineNext == SyncNext \/ BackfillNext \/ PipelineSwitch

SpecPipeline == PipelineInit /\ [][PipelineNext]_vars

(***************************************************************************)
(* The program "fetch_bgg_collection alone": one call with any arguments.  *)
(***************************************************************************)
BackoffBases == {2, 3}

FetchInit ==
    /\ mode = "fetch"
    /\ db = NewDb(<<>>, "idle")
    /\ migrated = TRUE
    /\ sync = IdleSync
    /\ log = <<>>
    /\ bf = IdleBf
    /\ tasks = <<>>
    /\ later = 0
    /\ \E max \in 1..MaxAttemptsBound, base \in BackoffBases :
           fetch = NewFetch(max, base)

FetchAttempt ==
    /\ fetch.pc = "get"
    /\ \E o \in FetchOutcomes : fetch' = Attempt(fetch, o)
    /\ UNCHANGED <<later, mode, db, migrated, sync, log, bf, tasks>>

FetchWake ==
    /\ fetch.pc = "sleep"
    /\ fetch' = Wake(fetch)
    /\ UNCHANGED <<later, mode, db, migrated, sync, log, bf, tasks>>

FetchCancelSleep ==
    /\ fetch.pc = "sleep"
    /\ fetch' = CancelSleep(fetch)
    /\ UNCHANGED <<later, mode, db, migrated, sync, log, bf, tasks>>

FetchNext == FetchAttempt \/ FetchWake \/ FetchCancelSleep

SpecFetch == FetchInit /\ [][FetchNext]_vars

\* session.get ends in a response or an exception (the client session has a
\* total timeout) and a sleep of a finite delay ends: a fetch that can take
\* a step takes one
SpecFetchLive == SpecFetch /\ WF_vars(FetchNext)

(***************************************************************************)
(* Properties of fetch_bgg_collection, checked under SpecFetch.            *)
(***************************************************************************)
IsResp(o, statuses) == o.kind = "resp" /\ o.status \in statuses

AuthStatuses == {401, 403}
ServerErrors == {s \in StatusPool : 500 <= s /\ s < 600}

\* C1: a 401 or 403 response ends the fetch at once: it is the last network
\* call (calls equals the number of that attempt, 1 for a first attempt,
\* whatever max_attempts is) and the fetch has returned (None, that status).
C1_AuthResponseStopsFetch ==
    mode = "fetch" =>
        \A i \in 1..Len(fetch.hist) :
            IsResp(fetch.hist[i], AuthStatuses) =>
                /\ i = Len(fetch.hist)
                /\ fetch.calls = i
                /\ fetch.pc = "done"
                /\ fetch.result = Pair(NoBody, fetch.hist[i].status)

C1_Witness ==
    /\ mode = "fetch"
    /\ fetch.max = 3
    /\ Len(fetch.hist) = 2
    /\ IsResp(fetch.hist[1], {202})
    /\ IsResp(fetch.hist[2], AuthStatuses)
    /\ fetch.pc = "done"

\* C2: k responses 202 followed by a 200 (k + 1 <= max_attempts) return the
\* body of the 200 with status 200 after exactly k waits of 5 seconds; only
\* 202 and 5xx responses on all max_attempts attempts return (None, None).
C2_PollThenSuccessOrExhaustion ==
    (mode = "fetch" /\ fetch.pc = "done" /\ fetch.result # Cancelled) =>
        LET n == Len(fetch.hist) IN
        /\ ( /\ n >= 1
             /\ \A i \in 1..(n - 1) : IsResp(fetch.hist[i], {202})
             /\ IsResp(fetch.hist[n], {200}) )
           => /\ fetch.result = Pair(fetch.hist[n].body, 200)
              /\ fetch.waits = [i \in 1..(n - 1) |-> Seconds(PollDelaySeconds)]
        /\ ( /\ n = fetch.max
             /\ \A i \in 1..n : IsResp(fetch.hist[i], {202} \cup ServerErrors) )
           => fetch.result = Pair(NoBody, NoStatus)

C2_Witness ==
    /\ mode = "fetch"
    /\ fetch.pc = "done"
    /\ fetch.max = 3
    /\ Len(fetch.hist) = 3
    /\ IsResp(fetch.hist[1], {202})
    /\ IsResp(fetch.hist[2], {202})
    /\ IsResp(fetch.hist[3], {200})
    /\ fetch.waits = <<Seconds(5), Seconds(5)>>

\* A non-negative number in decimal notation: digits, or digits '.' digit.
AllDigits(s) == Len(s) > 0 /\ \A i \in 1..Len(s) : s[i] \in Digits

IsNonNegativeNumber(s) ==
    \/ AllDigits(s)
    \/ /\ Len(s) >= 3
       /\ s[Len(s) - 1] = "."
       /\ AllDigits(SubSeq(s, 1, Len(s) - 2))
       /\ s[Len(s)] \in Digits

NumberInTenths(s) ==
    IF AllDigits(s) THEN Seconds(DecimalValue(s))
    ELSE Seconds(DecimalValue(SubSeq(s, 1, Len(s) - 2))) + DigitVal(s[Len(s)])

\* the wait that followed attempt i (every attempt before the last one, and
\* every attempt that did not return, is followed by exactly one wait)
WaitAfter(f, i) == f.waits[i]

IsFetchOutcome(r) ==
    /\ r.kind = "pair"
    /\ \/ r.status = 200 /\ r.body # NoBody
       \/ r.status \notin {200, NoStatus} /\ r.body = NoBody
       \/ r.status = NoStatus /\ r.body = NoBody

C4_AlwaysReturnsPair ==
    (mode = "fetch" /\ fetch.pc = "done" /\ fetch.result # Cancelled) =>
        IsFetchOutcome(fetch.result)

(***************************************************************************)
(* Properties of process_bgg_users, checked under Spec.                    *)
(***************************************************************************)
Range(s) == {s[i] : i \in 1..Len(s)}

Events(op, uid) == {i \in 1..Len(log) : log[i].op = op /\ log[i].uid = uid}

\* the place of a listed user in the list
PlaceOf(uid) == CHOOSE p \in 1..Len(sync.list) : sync.list[p] = uid

Stored(uid, id) ==
    \E i \in 1..Len(db.games) :
        db.games[i].userid = uid /\ db.games[i].bggid = id

\* something raised while the account was processed: an upsert, the marking,
\* the decoding of an item or the unpacking of the fetch result
AccountFailed(uid) ==
    \E i \in 1..Len(log) :
        /\ log[i].uid = uid
        /\ \/ log[i].op = "error"
           \/ log[i].op \in {"upsert", "mark"} /\ ~log[i].ok

\* C5: whatever was raised for one account, every later account of the list
\* is fetched exactly once and its records are decoded and written: at the
\* end of the run every record of it that the store accepts is stored.
C5_AccountIsolation ==
    (mode = "sync" /\ sync.pc = "done") =>
        \A p \in 1..Len(sync.list), q \in 1..Len(sync.list) :
            (p < q /\ AccountFailed(sync.list[p])) =>
                /\ Cardinality(Events("fetch", sync.list[q])) = 1
                /\ \A i \in Events("upsert", sync.list[q]) :
                       log[i].id \notin RejectedIds =>
                           log[i].ok /\ Stored(log[i].uid, log[i].id)

\* C6: after a failed upsert the upsert of every later record is still
\* called, and every record that the store accepts on a clean connection
\* ends up stored.
C6_RecordIsolation ==
    mode = "sync" =>
        /\ \A i \in 1..Len(log) :
               (log[i].op = "upsert" /\ log[i].id \notin RejectedIds) =>
                   log[i].ok /\ Stored(log[i].uid, log[i].id)
        /\ (Len(log) > 0 /\ log[Len(log)].op = "upsert") =>
               (sync.pc = "items" /\ sync.k = log[Len(log)].k + 1)

\* C7: when upsert or the marking has returned or raised, the connection
\* holds no open and no aborted transaction.
C7_WritersEndTransaction ==
    (mode = "sync" /\ Len(log) > 0 /\ log[Len(log)].op \in {"upsert", "mark"})
        => db.txn = "idle"

\* C10: an account whose fetch returned (None, 401) or (None, 403) is marked
\* once, nothing of it is parsed or upserted, and the loop goes on with the
\* next account of the list.
C10_AuthAccountIsMarkedAndSkipped ==
    mode = "sync" =>
        \A i \in 1..Len(log) :
            (log[i].op = "fetched" /\ log[i].ok /\ log[i].id \in {401, 403}) =>
                LET uid == log[i].uid
                    p == PlaceOf(uid)
                IN  /\ Len(log) > i
                    /\ log[i + 1].op = "mark" /\ log[i + 1].uid = uid
                    /\ Cardinality(Events("mark", uid)) = 1
                    /\ Events("parse", uid) = {}
                    /\ Events("upsert", uid) = {}
                    /\ Events("error", uid) = {}
                    /\ sync.idx > p
                    /\ sync.pc \in {"next", "fetching", "items", "done",
                                    "cancelled"}
                    /\ Len(log) > i + 1 =>
                           /\ p < Len(sync.list)
                           /\ log[i + 2] =
                                  Event("fetch", sync.list[p + 1], 0, 0, TRUE)
                    /\ (sync.pc = "done" /\ p < Len(sync.list)) =>
                           Len(log) > i + 1

\* C8: upsert is idempotent (one row per (userid, bggid); a second upsert of
\* a stored row changes nothing) and process_bgg_users called again on the
\* same responses leaves the games table as the first call left it.
C8_UpsertAndRunIdempotent ==
    /\ \A i, j \in 1..Len(db.games) :
           SameKey(db.games[i], db.games[j]) => i = j
    /\ \A r \in Range(db.games) :
           db.txn # "aborted" => UpsertBoardgame(db, r).db.games = db.games
    /\ (mode = "rerun" /\ sync.run = 2 /\ sync.pc = "done") =>
           Range(db.games) = Range(sync.first)

\* C9: a dry run of the backfill writes nothing (no UPDATE, no commit, the
\* users table as it was); in a live run a candidate whose probe returned 401
\* or 403 gets one UPDATE, which sets its flag (the database not failing),
\* and never more than one.
UpdatesOf(uid) == {i \in 1..Len(log) : log[i].op = "update" /\ log[i].uid = uid}

C9_BackfillWrites ==
    mode = "backfill" =>
        /\ bf.dry =>
               /\ db.users = bf.users0
               /\ db.wusers = bf.users0
               /\ db.clock = 0
               /\ db.commits = 0
               /\ log = <<>>
        /\ ~bf.dry =>
               \A i \in DOMAIN tasks :
                   /\ Cardinality(UpdatesOf(tasks[i].uid)) <= 1
                   /\ ( /\ tasks[i].pc = "returned"
                        /\ tasks[i].status \in {401, 403}
                        /\ tasks[i].fault = "none" )
                      => /\ Cardinality(UpdatesOf(tasks[i].uid)) = 1
                         /\ db.users[tasks[i].uid].bggprivate = "TRUE"
                         /\ tasks[i].marked
                   /\ ( /\ tasks[i].pc = "returned"
                        /\ tasks[i].status \notin {401, 403} )
                      => /\ UpdatesOf(tasks[i].uid) = {}
                         /\ db.users[tasks[i].uid] = bf.users0[tasks[i].uid]

C9_Witness ==
    /\ mode = "backfill"
    /\ ~bf.dry
    /\ bf.pc = "done"
    /\ bf.marked = 1
    /\ Len(tasks) = 2
    /\ tasks[1].status = 401
    /\ tasks[1].marked
    /\ tasks[2].status = 200

C10_Witness ==
    /\ mode = "sync"
    /\ Len(log) >= 7
    /\ log[2].op = "fetched" /\ log[2].id = 403 /\ log[2].ok
    /\ log[3].op = "mark" /\ log[3].ok
    /\ log[4].op = "fetch"
    /\ log[7].op = "upsert" /\ log[7].ok

(***************************************************************************)
(* Properties of the pipeline, checked under SpecPipeline.                 *)
(***************************************************************************)
\* C11: no step of process_bgg_users or of the backfill script takes the
\* committed bggprivate of a user from TRUE to anything else, whatever the
\* responses and however many runs came before.
C11_FlagStaysTrue ==
    [][\A u \in DOMAIN db.users :
           db.users[u].bggprivate = "TRUE" =>
               db'.users[u].bggprivate = "TRUE"]_vars

\* a user marked by an earlier run whose collection a later call of
\* process_bgg_users fetched with 200 and stored
C11_Witness ==
    /\ mode = "pipeline"
    /\ later < MaxRuns - 1
    /\ \E i \in 1..Len(log) :
           /\ log[i].op = "upsert" /\ log[i].ok
           /\ db.users[log[i].uid].bggprivate = "TRUE"
           /\ db.users[log[i].uid].datemodified > 0

(***************************************************************************)
(* Properties of the decoding in process_bgg_users, checked under Spec.    *)
(***************************************************************************)
\* a decimal number: an optional sign, digits, and maybe '.' and digits
IsNumber(v) ==
    /\ v # NoAttr
    /\ LET body == IF Len(v) > 0 /\ v[1] \in {"-", "+"} THEN Tail(v) ELSE v
           dots == {i \in 1..Len(body) : body[i] = "."}
       IN  /\ Cardinality(dots) <= 1
           /\ \E i \in 1..Len(body) : body[i] \in Digits
           /\ \A i \in 1..Len(body) : body[i] \in Digits \cup {"."}

\* the items of the current document up to k have all their elements
AllPresentUpTo(k) == \A j \in 1..k : ~DecodeRaises(sync.items[j])

\* C12: an item (with all its elements) whose objectid, rating, minplayers,
\* maxplayers, minplaytime or numplays is no number decodes to 0 in that
\* field, and the item and the items after it are decoded and handed to
\* upsert_boardgame.
C12_MalformedNumbersDefault ==
    (mode = "sync" /\ sync.pc = "items") =>
        \A k \in 1..Len(sync.items) :
            LET it == sync.items[k]
                row == GameData(CurrentUid, it)
            IN  ~DecodeRaises(it) =>
                  /\ ~IsNumber(it.objectid) => row.bggid = 0
                  /\ ~IsNumber(it.rating) => row.avgrating = Finite(0)
                  /\ ~IsNumber(it.minplayers) => row.minplayers = 0
                  /\ ~IsNumber(it.maxplayers) => row.maxplayers = 0
                  /\ ~IsNumber(it.minplaytime) => row.minplaytime = 0
                  /\ ~IsNumber(it.numplays) => row.numplays = 0
                  /\ (k < sync.k /\ AllPresentUpTo(k)) =>
                         \E i \in Events("upsert", CurrentUid) : log[i].k = k

\* C13: an item that lacks its status, stats, rating average or numplays
\* element is decoded with the defaults and handed to upsert_boardgame, and
\* so are the items after it: no item raises while it is decoded, and every
\* item of the document that the loop has passed was handed over.
C13_AbsenceTolerated ==
    mode = "sync" =>
        /\ \A i \in 1..Len(log) : log[i].op = "error" => log[i].k = 0
        /\ sync.pc = "items" =>
               \A k \in 1..Len(sync.items) :
                   k < sync.k =>
                       \E i \in Events("upsert", CurrentUid) : log[i].k = k

(***************************************************************************)
(* Properties of the end of process_bgg_users, checked under Spec.         *)
(***************************************************************************)
RunSummary(candidates, restricted, written, failures) ==
    [kind |-> "RunSummary", candidates |-> candidates,
     restricted |-> restricted, written |-> written, failures |-> failures]

OkEvents(op) == {i \in 1..Len(log) : log[i].op = op /\ log[i].ok}

\* the accounts whose processing raised (the per-user handler ran), or whose
\* document could not be parsed
FailedAccounts ==
    {log[i].uid : i \in {j \in 1..Len(log) :
                            \/ log[j].op = "error"
                            \/ log[j].op = "parse" /\ ~log[j].ok}}

\* C14: a call that went through its list returns a RunSummary with the
\* number of listed accounts, of accounts marked, of successful upserts and
\* of failed accounts.
C14_ReturnsRunSummary ==
    (mode = "sync" /\ sync.pc = "done") =>
        sync.ret = RunSummary(Len(sync.list),
                              Cardinality(OkEvents("mark")),
                              Cardinality(OkEvents("upsert")),
                              Cardinality(FailedAccounts))

\* C15: the call ends with an exception exactly when the accounts could not
\* be listed (a cancellation apart): a failed listing is not a normal
\* return, and no failure of an account or of a record makes the call raise.
C15_ListingFailureIsRaised ==
    (mode = "sync" /\ sync.pc \in {"done", "failed"}) =>
        (sync.ret = RaisedOut <=> Events("listfail", 0) # {})

(***************************************************************************)
(* More properties of fetch_bgg_collection, checked under SpecFetch.       *)
(***************************************************************************)
\* an attempt that ends in a transport-level exception, a 5xx, a 429 or a 202
Transient(o) ==
    \/ o.kind \in {"ce", "exc"}
    \/ o.kind = "cre" /\ o.status \notin AuthStatuses
    \/ IsResp(o, ServerErrors \cup {429, 202})

\* C16: while every attempt so far ended in a transient failure (and no wait
\* was cancelled), nothing has left the fetch but a pair: it is still inside
\* its max_attempts attempts, or it has made all of them and returned
\* (None, None).
C16_TransientFailuresStayInside ==
    ( /\ mode = "fetch"
      /\ fetch.result # Cancelled
      /\ \A i \in 1..Len(fetch.hist) : Transient(fetch.hist[i]) )
    => /\ fetch.calls = Len(fetch.hist)
       /\ fetch.calls <= fetch.max
       /\ fetch.pc \in {"get", "sleep"} =>
              /\ fetch.result = Pending
              /\ fetch.attempt <= fetch.max
              /\ fetch.calls = IF fetch.pc = "get" THEN fetch.attempt - 1
                               ELSE fetch.attempt
       /\ fetch.pc = "done" =>
              /\ fetch.result = Pair(NoBody, NoStatus)
              /\ fetch.calls = fetch.max
              /\ Len(fetch.waits) = fetch.max

C16_Witness ==
    /\ mode = "fetch"
    /\ fetch.pc = "done"
    /\ Len(fetch.hist) = 3
    /\ fetch.hist[1].kind = "ce"
    /\ IsResp(fetch.hist[2], ServerErrors)
    /\ IsResp(fetch.hist[3], {429})
    /\ fetch.result = Pair(NoBody, NoStatus)

WasCandidate(u) ==
    bf.users0[u].bgguser # NullUser /\ bf.users0[u].bggprivate # "TRUE"

\* the task of user u has returned after a 401 or 403 and a committed UPDATE
MarkedBy(u) ==
    \E i \in DOMAIN tasks :
        /\ tasks[i].uid = u
        /\ tasks[i].pc = "returned"
        /\ tasks[i].status \in {401, 403}
        /\ tasks[i].marked

\* C18: in a live run the rows of users that differ from what they were are
\* exactly those of the candidates whose probe returned 401 or 403 and whose
\* UPDATE was committed, and they have the flag; no UPDATE is sent for a user
\* that is no candidate or whose probe ended otherwise.
C18_ExactlyAuthCandidatesWritten ==
    (mode = "backfill" /\ ~bf.dry) =>
        /\ \A i \in DOMAIN tasks : WasCandidate(tasks[i].uid)
        /\ \A u \in DOMAIN db.users :
               /\ db.users[u] # bf.users0[u] <=> MarkedBy(u)
               /\ MarkedBy(u) =>
                      WasCandidate(u) /\ db.users[u].bggprivate = "TRUE"
               /\ UpdatesOf(u) # {} =>
                      \E i \in DOMAIN tasks :
                          /\ tasks[i].uid = u
                          /\ tasks[i].fetch.result.kind = "pair"
                          /\ tasks[i].fetch.result.status \in {401, 403}

\* one candidate marked after a 403, one probed with another outcome, and a
\* user that was restricted before is not listed
C18_Witness ==
    /\ mode = "backfill"
    /\ ~bf.dry
    /\ bf.pc = "done"
    /\ Len(tasks) < Cardinality(DOMAIN db.users)
    /\ \E u \in DOMAIN db.users :
           bf.users0[u].bggprivate = "TRUE" /\ db.users[u] = bf.users0[u]
    /\ \E u \in DOMAIN db.users :
           MarkedBy(u) /\ bf.users0[u].bggprivate = "NULL"

\* C19: a task of the script calls session.get at most once: whatever the
\* response or the exception of the call, the fetch of the task ends (after
\* the wait the response asks for) without a second call.
C19_SingleProbe ==
    mode = "backfill" =>
        \A i \in DOMAIN tasks :
            /\ tasks[i].fetch.calls <= 1
            /\ Len(tasks[i].fetch.hist) = tasks[i].fetch.calls
            /\ tasks[i].fetch.calls = 1 => tasks[i].fetch.pc \in {"sleep", "done"}

\* both candidates were answered with a response that asks for a retry, and
\* the run is over
C19_Witness ==
    /\ mode = "backfill"
    /\ bf.pc = "done"
    /\ Len(tasks) = 2
    /\ IsResp(tasks[1].fetch.hist[1], {202})
    /\ IsResp(tasks[2].fetch.hist[1], {429})
    /\ \A i \in DOMAIN tasks :
           /\ tasks[i].fetch.calls = 1
           /\ tasks[i].fetch.result = Pair(NoBody, NoStatus)

\* C20: a 200 response is the last attempt of the fetch, which returns the
\* body with status 200 at once: there are as many waits as attempts before
\* it (none when it is the first), and no wait after it.
C20_SuccessReturnsAtOnce ==
    mode = "fetch" =>
        \A i \in 1..Len(fetch.hist) :
            IsResp(fetch.hist[i], {200}) =>
                /\ i = Len(fetch.hist)
                /\ fetch.pc = "done"
                /\ fetch.result = Pair(fetch.hist[i].body, 200)
                /\ fetch.calls = i
                /\ Len(fetch.waits) = i - 1
                /\ fetch.delay = 0

\* a 200 on the first attempt of a fetch that had more attempts
C20_Witness ==
    /\ mode = "fetch"
    /\ fetch.max > 1
    /\ Len(fetch.hist) = 1
    /\ IsResp(fetch.hist[1], {200})
    /\ fetch.waits = <<>>
    /\ fetch.calls = 1
    /\ fetch.result.kind = "pair"

\* ---------------------------------------------------------------------
\* C21: the run lists and fetches only accounts with a non-empty username:
\* no account whose username is NULL or the empty string is in the list of
\* the run, and no fetch is started for one.
HasUsername(u) == db.users[u].bgguser \notin {NullUser, ""}

C21_OnlyNamedAccountsFetched ==
    mode = "sync" =>
        /\ \A i \in DOMAIN sync.list : HasUsername(sync.list[i])
        /\ \A i \in DOMAIN log :
              log[i].op = "fetch" => HasUsername(log[i].uid)

\* an account with the empty username has been fetched
C21_EmptyNameFetched ==
    /\ mode = "sync"
    /\ \E i \in DOMAIN log :
          /\ log[i].op = "fetch"
          /\ db.users[log[i].uid].bgguser = ""

\* ---------------------------------------------------------------------
\* C22: a response whose status is none of 200, 202, 429, 401, 403 and 5xx
\* (404, 400) ends the fetch: it is the last network call, no wait follows
\* it (the waits are those of the attempts before it), and the fetch has
\* returned (None, that status), also when attempts remain.
OtherStatuses ==
    {s \in StatusPool : s \notin {200, 202, 429, 401, 403} /\ ~(500 <= s /\ s < 600)}

C22_OtherStatusIsTerminal ==
    mode = "fetch" =>
        \A i \in 1..Len(fetch.hist) :
            IsResp(fetch.hist[i], OtherStatuses) =>
                /\ i = Len(fetch.hist)
                /\ fetch.calls = i
                /\ Len(fetch.waits) = i - 1
                /\ fetch.pc = "done"
                /\ fetch.result = Pair(NoBody, fetch.hist[i].status)

\* a 400 on the first of three attempts, and a 404 after a wait
C22_Witness ==
    /\ mode = "fetch"
    /\ fetch.max = 3
    /\ fetch.pc = "done"
    /\ \/ /\ Len(fetch.hist) = 1
          /\ IsResp(fetch.hist[1], {400})
          /\ fetch.result = Pair(NoBody, 400)
       \/ /\ Len(fetch.hist) = 2
          /\ IsResp(fetch.hist[1], ServerErrors)
          /\ IsResp(fetch.hist[2], {404})
          /\ fetch.result = Pair(NoBody, 404)

\* ---------------------------------------------------------------------
\* C23: the writes of the concurrent tasks are serialized.  A task runs
\* from its defensive rollback to its commit or error rollback without
\* giving up the event loop, so wherever another task can run the shared
\* connection holds no uncommitted update, no aborted transaction and no
\* cursor of a task, and no rollback of a task discards the update of
\* another: the flag of every task that reported marked is committed.
C23_WritesSerialized ==
    mode = "backfill" =>
        /\ bf.pc = "gather" =>
              /\ db.wusers = db.users
              /\ db.txn # "aborted"
              /\ db.cursors = 1
        /\ \A i \in DOMAIN tasks :
              tasks[i].marked =>
                  db.users[tasks[i].uid].bggprivate = "TRUE"

\* a task committed its flag, then the UPDATE of another task failed and
\* that task rolled back: the flag of the first is still there
C23_Witness ==
    /\ mode = "backfill"
    /\ bf.pc = "gather"
    /\ Len(log) = 2
    /\ log[1].op = "update" /\ log[1].ok
    /\ log[2].op = "update" /\ ~log[2].ok
    /\ log[1].uid # log[2].uid
    /\ \E i \in DOMAIN tasks :
          /\ tasks[i].uid = log[1].uid
          /\ tasks[i].marked
          /\ db.users[tasks[i].uid].bggprivate = "TRUE"

\* ---------------------------------------------------------------------
\* C24: in a live run a failure of the marking write of one candidate
\* (cursor(), the UPDATE or the commit raises) stays inside the task of
\* that candidate: the write is rolled back and the task returns not
\* marked; no task raises or is cancelled, every other task whose probe
\* returned 401/403 is marked, and main() goes on to its summary (it
\* raises only when the listing itself failed).
WriteFailed(i) ==
    /\ tasks[i].fault \in {"cursor", "update", "commit"}
    /\ tasks[i].fetch.result.kind = "pair"
    /\ tasks[i].fetch.result.status \in {401, 403}

C24_MarkingFailureIsolated ==
    (mode = "backfill" /\ ~bf.dry) =>
        /\ \A i \in DOMAIN tasks :
              /\ tasks[i].pc \notin {"raised", "cancelled"}
              /\ (tasks[i].pc = "returned" /\ WriteFailed(i)) =>
                    /\ ~tasks[i].marked
                    /\ db.users[tasks[i].uid] = bf.users0[tasks[i].uid]
                    /\ db.wusers = db.users
              /\ ( /\ tasks[i].pc = "returned"
                   /\ tasks[i].status \in {401, 403}
                   /\ tasks[i].fault \in {"none", "rollback"} )
                       => tasks[i].marked
        /\ bf.pc = "raised" => tasks = <<>>

\* cursor() raised in one task: main() has raised without a summary and
\* another candidate was cancelled inside its probe
C24_CursorFailureEndsRun ==
    /\ mode = "backfill"
    /\ ~bf.dry
    /\ bf.pc = "raised"
    /\ \E i, j \in DOMAIN tasks :
          /\ i # j
          /\ tasks[i].fault = "cursor"
          /\ tasks[i].pc = "raised"
          /\ tasks[j].pc = "cancelled"

\* ---------------------------------------------------------------------
\* C25: the summary of a completed run is exact: the total is the number
\* of accounts the listing returned (the rows with a username and a flag
\* not TRUE at the start), the marked count is the number of accounts whose
\* flag write was committed in this run (the rows that changed, one commit
\* each), and a dry run reports 0 marked whatever the probes returned.
CommittedInRun == {u \in DOMAIN db.users : db.users[u] # bf.users0[u]}

C25_SummaryExact ==
    (mode = "backfill" /\ bf.pc = "done") =>
        /\ bf.total = Cardinality(Candidates(bf.users0))
        /\ bf.total = Len(tasks)
        /\ bf.marked = Cardinality(CommittedInRun)
        /\ bf.marked = db.commits
        /\ bf.dry => bf.marked = 0

\* two candidates, both answered 401/403, one write failed: 2 and 1
C25_Witness ==
    /\ mode = "backfill"
    /\ bf.pc = "done"
    /\ ~bf.dry
    /\ bf.total = 2
    /\ bf.marked = 1
    /\ \A i \in DOMAIN tasks : tasks[i].status \in {401, 403}
    /\ \E i \in DOMAIN tasks : tasks[i].fault \in {"update", "commit"}

\* ---------------------------------------------------------------------
\* C26: when the body fetched for an account is a malformed document the
\* step that handles it writes nothing and moves to the next account; the
\* account gets no upsert and no marking, and the account after it in the
\* list, if there is one, is fetched next.
MalformedFetched ==
    /\ mode = "sync"
    /\ sync.pc = "fetching"
    /\ fetch.pc = "done"
    /\ fetch.result.kind = "pair"
    /\ fetch.result.status \notin {401, 403}
    /\ fetch.result.body.kind = "malformed"

C26_MalformedDocumentSkipsAccount ==
    /\ [][MalformedFetched =>
              /\ db' = db
              /\ sync'.pc = "next"
              /\ sync'.idx = sync.idx + 1
              /\ log'[Len(log')] = Event("parse", CurrentUid, 0, 0, FALSE)]_vars
    /\ [](mode = "sync" =>
            \A i \in 1..Len(log) :
                (log[i].op = "parse" /\ ~log[i].ok) =>
                    LET uid == log[i].uid
                        p == PlaceOf(uid)
                    IN  /\ Events("upsert", uid) = {}
                        /\ Events("mark", uid) = {}
                        /\ sync.idx > p
                        /\ sync.pc \in {"next", "fetching", "items", "done",
                                        "cancelled"}
                        /\ Len(log) > i =>
                               /\ p < Len(sync.list)
                               /\ log[i + 1] =
                                      Event("fetch", sync.list[p + 1], 0, 0,
                                            TRUE)
                        /\ (sync.pc = "done" /\ p < Len(sync.list)) =>
                               Len(log) > i)

\* the document of the first account was malformed; a record of the second
\* account was then stored
C26_Witness ==
    /\ mode = "sync"
    /\ Len(log) >= 7
    /\ log[3].op = "parse" /\ ~log[3].ok
    /\ log[4].op = "fetch" /\ log[4].uid # log[3].uid
    /\ log[6].op = "parse" /\ log[6].ok
    /\ log[7].op = "upsert" /\ log[7].ok
    /\ Stored(log[7].uid, log[7].id)

\* ---------------------------------------------------------------------
\* C27: an account whose fetch returned no body and a status other than
\* 401/403 (None after the attempts were used up, or a status such as 404)
\* is skipped: the step that handles it writes nothing, and the account gets
\* no decoding, no upsert and no marking.  The flag is written only for an
\* account whose fetch returned 401 or 403 in this run: every marking
\* follows the return of such a fetch for the same account, and only the
\* rows of accounts so marked have changed.
NoBodyFetched ==
    /\ mode = "sync"
    /\ sync.pc = "fetching"
    /\ fetch.pc = "done"
    /\ fetch.result.kind = "pair"
    /\ fetch.result.status \notin {401, 403}
    /\ fetch.result.body.kind = "none"

C27_NoBodyWritesNothing ==
    /\ [][NoBodyFetched =>
              /\ db' = db
              /\ sync'.pc = "next"
              /\ sync'.idx = sync.idx + 1
              /\ log'[Len(log')] = Event("skip", CurrentUid, 0, 0, TRUE)]_vars
    /\ [](mode = "sync" =>
            /\ \A i \in 1..Len(log) :
                  log[i].op = "skip" =>
                      /\ Events("parse", log[i].uid) = {}
                      /\ Events("upsert", log[i].uid) = {}
                      /\ Events("mark", log[i].uid) = {}
            /\ \A i \in 1..Len(log) :
                  log[i].op = "mark" =>
                      /\ i > 1
                      /\ log[i - 1].op = "fetched"
                      /\ log[i - 1].uid = log[i].uid
                      /\ log[i - 1].ok
                      /\ log[i - 1].id \in {401, 403}
            /\ \A u \in DOMAIN db.wusers :
                  (db.wusers[u].datemodified # 0 \/ db.users[u].datemodified # 0)
                      => \E i \in Events("mark", u) : log[i].ok)

\* the fetch of the first account ended in 404 and the account was skipped
\* untouched; the second account answered 401/403 and was marked
C27_Witness ==
    /\ mode = "sync"
    /\ sync.pc = "done"
    /\ Len(log) = 6
    /\ log[2].op = "fetched" /\ log[2].id = 404
    /\ log[3].op = "skip"
    /\ log[5].op = "fetched" /\ log[5].id \in {401, 403}
    /\ log[6].op = "mark" /\ log[6].ok
    /\ db.users[log[3].uid].bggprivate = "FALSE"
    /\ db.users[log[6].uid].bggprivate = "TRUE"

\* ---------------------------------------------------------------------
\* C28: a 202 is followed by the fixed wait of 5 seconds and takes nothing
\* from the exponential sequence: the wait after a 5xx, a transport failure
\* or a 429 without a number in Retry-After is base^e, e counting that
\* attempt and the attempts before it that were no 202 response, so that it
\* is the same with and without 202 responses before it.
NoUsableHeader(o) ==
    o.ra = NoHeader \/ ~IsNonNegativeNumber(o.ra)

ExponentialWait(o) ==
    \/ o.kind \in {"ce", "exc"}
    \/ o.kind = "cre" /\ o.status \notin AuthStatuses
    \/ IsResp(o, ServerErrors)
    \/ IsResp(o, {429}) /\ NoUsableHeader(o)

PollsBefore(f, i) ==
    Cardinality({j \in 1..(i - 1) : IsResp(f.hist[j], {202})})

C28_PollKeepsBackoffSequence ==
    mode = "fetch" =>
        \A i \in 1..Len(fetch.waits) :
            /\ IsResp(fetch.hist[i], {202}) =>
                  WaitAfter(fetch, i) = Seconds(PollDelaySeconds)
            /\ ExponentialWait(fetch.hist[i]) =>
                  WaitAfter(fetch, i) =
                      Seconds(Pow(fetch.base, i - PollsBefore(fetch, i)))

\* base 2: a 202, then a 500 that is followed by a wait of 4 seconds, where
\* a 500 on a first attempt is followed by 2 seconds
C28_PollConsumedExponent ==
    /\ mode = "fetch"
    /\ fetch.base = 2
    /\ Len(fetch.waits) = 2
    /\ IsResp(fetch.hist[1], {202})
    /\ IsResp(fetch.hist[2], ServerErrors)
    /\ WaitAfter(fetch, 1) = Seconds(PollDelaySeconds)
    /\ WaitAfter(fetch, 2) = Seconds(Pow(fetch.base, 2))

\* ---------------------------------------------------------------------
\* C29: the wait after a 5xx response, after a transport-level exception
\* and after a 429 without a number in Retry-After on the 1-based attempt n
\* is exactly base^n seconds (2, 4, 8 for base 2), with no upper bound.
C29_WaitIsBaseToTheAttempt ==
    mode = "fetch" =>
        \A n \in 1..Len(fetch.waits) :
            ExponentialWait(fetch.hist[n]) =>
                WaitAfter(fetch, n) = Seconds(Pow(fetch.base, n))

\* base 2, three attempts: a 5xx, a transport failure and a 429 without the
\* header were followed by 2, 4 and 8 seconds
C29_Witness ==
    /\ mode = "fetch"
    /\ fetch.base = DefaultBackoff
    /\ fetch.max = DefaultMaxAttempts
    /\ Len(fetch.hist) = 3
    /\ IsResp(fetch.hist[1], ServerErrors)
    /\ fetch.hist[2].kind = "ce"
    /\ IsResp(fetch.hist[3], {429}) /\ fetch.hist[3].ra = NoHeader
    /\ fetch.waits = <<Seconds(2), Seconds(4), Seconds(8)>>

\* ---------------------------------------------------------------------
\* C30: the fetch ends within its budget: for every max_attempts >= 1 and
\* every sequence of responses and failures it never makes more than
\* max_attempts network calls, it ends (returns or raises) after finitely
\* many steps, and it returns (None, None) only after exactly max_attempts
\* calls.
C30_TerminatesWithinBudget ==
    /\ [](mode = "fetch" =>
            /\ fetch.calls <= fetch.max
            /\ fetch.calls = Len(fetch.hist)
            /\ fetch.attempt <= fetch.max
            /\ fetch.result = Pair(NoBody, NoStatus) =>
                   /\ fetch.pc = "done"
                   /\ fetch.calls = fetch.max)
    /\ <>(mode = "fetch" /\ fetch.pc = "done" /\ fetch.result # Pending)
    /\ [][(mode = "fetch" /\ fetch.pc = "done") => UNCHANGED fetch]_vars

\* three attempts, none of which ended the fetch: (None, None) after 3 calls
C30_Witness ==
    /\ mode = "fetch"
    /\ fetch.max = MaxAttemptsBound
    /\ fetch.pc = "done"
    /\ fetch.result = Pair(NoBody, NoStatus)
    /\ fetch.calls = fetch.max
    /\ Len(fetch.waits) = fetch.max

\* ---------------------------------------------------------------------
\* C31: the run is sequential and ordered.  A fetch is in flight only for
\* the account the loop is at, and one fetch was started for each account
\* up to it, in the order of the list; once the fetch of an account has
\* started nothing more happens for an earlier account; within an account
\* the upserts are issued for items 1, 2, ... of the document, in that order.
FetchesStarted == {i \in 1..Len(log) : log[i].op = "fetch"}

C31_SequentialAndOrdered ==
    (mode = "sync" /\ sync.pc \notin {"list", "failed"}) =>
        /\ fetch.pc # "idle" =>
              /\ sync.pc = "fetching"
              /\ Cardinality(FetchesStarted) = sync.idx
        /\ Cardinality(FetchesStarted) \in {sync.idx - 1, sync.idx}
        /\ \A i \in FetchesStarted :
              LET p == Cardinality({j \in FetchesStarted : j <= i}) IN
              /\ log[i].uid = sync.list[p]
              /\ \A j \in (i + 1)..Len(log) :
                    \A q \in 1..(p - 1) : log[j].uid # sync.list[q]
        /\ \A i \in 1..Len(log) :
              log[i].op = "upsert" =>
                  /\ log[i].k >= 1
                  /\ log[i].k > 1 =>
                        /\ log[i - 1].op = "upsert"
                        /\ log[i - 1].uid = log[i].uid
                        /\ log[i - 1].k = log[i].k - 1
                  /\ log[i].k = 1 => log[i - 1].op = "parse"
        /\ sync.pc = "items" =>
              \A i \in Events("upsert", CurrentUid) :
                  /\ log[i].k <= Len(sync.items)
                  /\ log[i].id = GameData(CurrentUid, sync.items[log[i].k]).bggid

\* two different records of the first account were written in document
\* order, then the fetch of the second account started
C31_Witness ==
    /\ mode = "sync"
    /\ Len(log) = 6
    /\ log[1].op = "fetch"
    /\ log[4].op = "upsert" /\ log[4].k = 1 /\ log[4].ok
    /\ log[5].op = "upsert" /\ log[5].k = 2 /\ log[5].ok
    /\ log[4].id # log[5].id
    /\ log[6].op = "fetch" /\ log[6].uid # log[1].uid
    /\ fetch.pc = "get"

\* ---------------------------------------------------------------------
\* C32: the marking rolls the connection back before it issues the UPDATE.
\* With the rollback done the flag is written and committed whatever state
\* the connection was in, an aborted transaction included; when the
\* rollback itself raises, that is ignored and the UPDATE is still issued:
\* it writes the flag on a connection that was not aborted, and on an
\* aborted one it raises, which is caught, and the run goes on.
MarkStep ==
    /\ mode = "sync"
    /\ sync.pc = "fetching"
    /\ fetch.pc = "done"
    /\ fetch.result.kind = "pair"
    /\ fetch.result.status \in {401, 403}

Written(d, uid) ==
    /\ d.users[uid].bggprivate = "TRUE"
    /\ d.wusers = d.users
    /\ d.txn = "idle"

Flags(users) == [u \in DOMAIN users |-> users[u].bggprivate]

C33_OrderIndependent ==
    (mode = "order" /\ sync.run > 1 /\ sync.pc = "done") =>
        /\ Range(db.games) = Range(sync.first)
        /\ Flags(db.users) = Flags(sync.firstusers)

\* the second run, in another order, left other game rows than the first
C33_OrderChangedStore ==
    /\ mode = "order"
    /\ sync.run = 2
    /\ sync.pc = "done"
    /\ Range(db.games) # Range(sync.first)
    /\ Flags(db.users) = Flags(sync.firstusers)

\* ---------------------------------------------------------------------
\* C34: every cursor is released on every exit path.  Between two steps of
\* process_bgg_users (after the listing, after a marking, after an upsert,
\* whether they returned or raised) no cursor is open; while the tasks of
\* the backfill run only the cursor of main() is open, and when the run is
\* over (summary or exception) no cursor is open and the connection of the
\* script is closed.
C34_CursorsReleased ==
    /\ mode \in SyncModes => db.cursors = 0 /\ ~db.closed
    /\ mode = "backfill" =>
          /\ bf.pc = "list" => db.cursors = 0 /\ ~db.closed
          /\ bf.pc = "gather" => db.cursors = 1 /\ ~db.closed
          /\ bf.pc \in {"done", "raised"} => db.cursors = 0 /\ db.closed

\* a backfill run after a run of process_bgg_users: one task wrote its
\* flag, cursor() raised in another, main() ended by the exception
C34_Witness ==
    /\ mode = "backfill"
    /\ later < MaxRuns - 1
    /\ bf.pc = "raised"
    /\ \E i, j \in DOMAIN tasks :
          /\ tasks[i].marked
          /\ tasks[j].pc = "raised" /\ tasks[j].fault = "cursor"
    /\ db.cursors = 0
    /\ db.closed

\* ---------------------------------------------------------------------
\* C35: every attempt that does not end the fetch (202, 429, 5xx, an
\* exception that is retried) is followed by exactly one wait, the last
\* attempt of the budget included: (None, None) is returned out of the
\* wait that follows attempt max_attempts, with max_attempts waits taken;
\* with max_attempts = 1 a 202 costs one wait of 5 seconds.
C35_WaitAfterEveryRetriedAttempt ==
    /\ [](mode = "fetch" =>
            /\ Len(fetch.waits) =
                   Cardinality({i \in 1..Len(fetch.hist) :
                                   Transient(fetch.hist[i])})
            /\ \A i \in 1..Len(fetch.hist) :
                   Transient(fetch.hist[i]) => Len(fetch.waits) >= i
            /\ (fetch.pc = "done" /\ fetch.result = Pair(NoBody, NoStatus)) =>
                   /\ fetch.calls = fetch.max
                   /\ Len(fetch.waits) = fetch.max
            /\ ( /\ fetch.max = 1
                 /\ Len(fetch.hist) = 1
                 /\ IsResp(fetch.hist[1], {202}) ) =>
                   fetch.waits = <<Seconds(PollDelaySeconds)>>)
    /\ [][(mode = "fetch" /\ fetch.pc # "done"
             /\ fetch'.result = Pair(NoBody, NoStatus)) =>
              /\ fetch.pc = "sleep"
              /\ fetch.attempt = fetch.max
              /\ fetch.delay = fetch.waits[fetch.max]]_vars

\* max_attempts = 1 and a 202: (None, None) after one wait of 5 seconds
C35_Witness ==
    /\ mode = "fetch"
    /\ fetch.max = 1
    /\ fetch.pc = "done"
    /\ Len(fetch.hist) = 1
    /\ IsResp(fetch.hist[1], {202})
    /\ fetch.result = Pair(NoBody, NoStatus)
    /\ fetch.waits = <<Seconds(PollDelaySeconds)>>

\* ---------------------------------------------------------------------
\* C36: every successful upsert is committed before the next record is
\* taken: between two steps nothing written is uncommitted, and a record
\* whose upsert succeeded stays stored whatever fails later for the account
\* or for a later one, the defensive rollback of a later marking included.
C36_UpsertCommittedAtOnce ==
    mode = "sync" =>
        /\ db.wgames = db.games
        /\ \A i \in 1..Len(log) :
              (log[i].op = "upsert" /\ log[i].ok) =>
                  Stored(log[i].uid, log[i].id)

\* the first record of an account was stored, its second was rejected, and
\* the next account was marked after the defensive rollback: the first
\* record is still stored
C36_Witness ==
    /\ mode = "sync"
    /\ Len(log) = 8
    /\ log[4].op = "upsert" /\ log[4].ok
    /\ log[5].op = "upsert" /\ ~log[5].ok /\ log[5].uid = log[4].uid
    /\ log[8].op = "mark" /\ log[8].ok /\ log[8].k = Raises(FALSE)
    /\ Stored(log[4].uid, log[4].id)

\* ---------------------------------------------------------------------
\* C37: process_bgg_users does not leave out the accounts already flagged:
\* every run lists and fetches every account with a username, and a 401 or
\* 403 for a flagged account writes the flag again (still TRUE) with a
\* later datemodified; the backfill script alone lists only the accounts
\* whose flag is not TRUE.
Named(users) == {u \in DOMAIN users : users[u].bgguser # NullUser}

C37_FlaggedAccountsStillFetched ==
    /\ [](mode = "pipeline" =>
            /\ sync.pc \notin {"list", "failed"} =>
                  Range(sync.list) = Named(db.users)
            /\ \A p \in 1..Len(sync.list) :
                  (p < sync.idx \/ (p = sync.idx /\ sync.pc # "next")) =>
                      Cardinality(Events("fetch", sync.list[p])) = 1)
    /\ [](mode = "backfill" /\ bf.pc \notin {"list", "raised"} =>
            Range(bf.cands) =
                {u \in Named(bf.users0) : bf.users0[u].bggprivate # "TRUE"})
    /\ [][( /\ mode = "pipeline"
            /\ sync.pc = "fetching"
            /\ fetch.pc = "done"
            /\ fetch.result.kind = "pair"
            /\ fetch.result.status \in {401, 403} ) =>
              LET uid == CurrentUid IN
              /\ log'[Len(log')].op = "mark" /\ log'[Len(log')].ok
              /\ db'.users[uid].bggprivate = "TRUE"
              /\ db'.users[uid].datemodified > db.users[uid].datemodified]_vars

\* the second run of the pipeline is a run of process_bgg_users that marked
\* every account, each of them flagged by the run before
C37_Witness ==
    /\ mode = "pipeline"
    /\ later = MaxRuns - 2
    /\ sync.pc = "done"
    /\ db.clock = 2 * MaxUsers
    /\ \A u \in DOMAIN db.users :
          /\ db.users[u].bggprivate = "TRUE"
          /\ Events("mark", u) # {}

\* ---------------------------------------------------------------------
\* C38: the connection of the script is closed once, by main(), when the
\* gather has returned (every task has returned) or raised (the tasks still
\* running are abandoned), or when the listing failed; once it is closed no
\* task rolls back, updates or commits on it: nothing is written, logged as
\* written or reported as marked any more.
C38_NoWriteAfterClose ==
    /\ [](mode = "backfill" =>
            /\ db.closed <=> bf.pc \in {"done", "raised"}
            /\ bf.pc = "done" =>
                  \A i \in DOMAIN tasks : tasks[i].pc = "returned")
    /\ [][(mode = "backfill" /\ ~db.closed /\ db'.closed) =>
              /\ bf.pc \in {"list", "gather"}
              /\ bf'.pc \in {"done", "raised"}
              /\ tasks' = tasks]_vars
    /\ [][(mode = "backfill" /\ db.closed) =>
              /\ db' = db
              /\ log' = log
              /\ bf' = bf
              /\ \A i \in DOMAIN tasks :
                    tasks'[i].marked = tasks[i].marked]_vars

\* cursor() raised in one task and main() closed the connection; another
\* task, whose probe had returned 401/403, then went on and wrote nothing
C38_Witness ==
    /\ mode = "backfill"
    /\ ~bf.dry
    /\ bf.pc = "raised"
    /\ db.closed
    /\ \E i, j \in DOMAIN tasks :
          /\ tasks[i].pc = "raised" /\ tasks[i].fault = "cursor"
          /\ tasks[j].pc = "raised" /\ tasks[j].fault = "none"
          /\ tasks[j].fetch.result.status \in {401, 403}
          /\ ~tasks[j].marked
          /\ db.users[tasks[j].uid] = bf.users0[tasks[j].uid]
    /\ log = <<>>

====
